---- MODULE Spec2Model ----
(***************************************************************************)
(* A model of renderer.py: MapRenderer, its grid accessor get_tile_at,     *)
(* its neighbour resolver get_neighbors, the layer assembler tile_mapper   *)
(* (one step per iteration of its loop over the z-levels) and the          *)
(* compositor render (its loop over the layer dict, in dict order).        *)
(***************************************************************************)
EXTENDS Integers, Sequences, FiniteSets, TLC

\* ---------------------------------------------------------------- bounds
MaxCols == 3
MaxRows == 3
MaxZ == 2
MaxIsland == 2
MaxVis == 2
MaxNegVis == 1
MaxView == 1
Reach == 2
Far == 1000000

\* ------------------------------------------------------ program constants
TILE_SIZE == 40

WATER_EDGE_CANCELERS ==
    {"wtr", "cld", "scld", "fc_1", "fc_2", "fc_3", "fc_4",
     "fc_6", "fc_7", "fc_8", "fc_9"}

\* Python's None, the result of dict.get on a missing key.
None == "<None>"

\* ------------------------------------------------------------ map values
\* The "tiles" mapping of the maps considered: symbol -> sprite name.
MapTiles == [s \in {"w", "g", "c"} |->
               CASE s = "w" -> "wtr" [] s = "g" -> "grs" [] s = "c" -> "cld"]

\* The cells of the block of at most MaxIsland x MaxIsland cells at (ax, ay).
Block(ax, ay) == (ax .. ax + MaxIsland - 1) \X (ay .. ay + MaxIsland - 1)

\* The islands of an nc x nr grid: the sets of cells that fit in one block.
Islands(nc, nr) ==
    UNION { SUBSET (Block(ax, ay) \cap ((0 .. nc - 1) \X (0 .. nr - 1))) :
              ax \in 0 .. nc - 1, ay \in 0 .. nr - 1 }

\* layers[z][y][x] of a map of nz levels: level 0 is water around an island
\* of the symbol s; the upper levels are blank, or copies of level 0.
GridOf(nz, nc, nr, island, s, overlay) ==
    LET ground == [yy \in 1 .. nr |->
                     [xx \in 1 .. nc |->
                        IF <<xx - 1, yy - 1>> \in island THEN s ELSE "w"]]
        blank  == [yy \in 1 .. nr |-> [xx \in 1 .. nc |-> " "]]
    IN  [zz \in 1 .. nz |->
           IF zz = 1 \/ overlay = "copy" THEN ground ELSE blank]

\* The island's symbol with the map's default symbol: a grass island, a
\* cloud island, and a blank island over default grass and over default water.
Terrains == {<<"g", "g">>, <<"c", "g">>, <<" ", "g">>, <<" ", "w">>}

Maps ==
    { [default |-> t[2], border |-> "g", tiles |-> MapTiles,
       layers |-> GridOf(nz, dim[1], dim[2], island, t[1], overlay)] :
        t \in Terrains,
        nz \in 1 .. MaxZ,
        dim \in (1 .. MaxCols) \X (1 .. MaxRows),
        island \in Islands(MaxCols, MaxRows),
        overlay \in {"blank", "copy"} }

\* ------------------------------------------------------------------ state
VARIABLES
    map,                 \* self.map
    rows, cols,          \* self.rows, self.cols
    visibility, radius,  \* self.visibility, self.radius
    x, y,                \* self.x, self.y
    render_water_edges,  \* self.render_water_edges
    visibility_arg,      \* the visibility argument __init__ was given
    neighbors,           \* what the latest get_neighbors call returned
    pc,                  \* "idle", "mapping", "compositing", "saved", "raised"
    full_map,            \* the full_map argument of the running call
    z_index,             \* tile_mapper's outer loop variable: the next z-level
    layers,              \* tile_mapper's dict, in insertion order
    tiles,               \* layer collections tile_mapper has returned, by mode
    out_of_bounds_layer, \* render's border sub-layer
    base_image           \* render's canvas: what was drawn on it, in order

vars == <<map, rows, cols, visibility, radius, x, y, render_water_edges,
          visibility_arg, neighbors, pc, full_map, z_index, layers, tiles,
          out_of_bounds_layer, base_image>>

self_vars == <<map, rows, cols, visibility, radius, x, y, render_water_edges,
               visibility_arg>>

\* --------------------------------------------------------------- helpers
RenderTile(px, py, z, tile, oob) ==
    [x |-> px, y |-> py, z |-> z, tile |-> tile, out_of_bounds |-> oob]

\* dict.get(key): the value, or None when the key is missing.
DictGet(d, k) == IF k \in DOMAIN d THEN d[k] ELSE None

\* Python truthiness of a str-or-None value.
Truthy(v) == v # None /\ v # ""

\* a | 1 on Python's integers (two's complement, unbounded).
OrOne(v) == IF v % 2 = 0 THEN v + 1 ELSE v

\* len(range(a, b))
RangeLen(a, b) == IF b > a THEN b - a ELSE 0

\* get_tile: the sprite image a tile reference resolves to (the file stem).
get_tile(m, tile_type) ==
    LET tile == DictGet(m.tiles, tile_type)
    IN  IF Truthy(tile) THEN tile ELSE tile_type

OutOfBounds(nc, nr, gx, gy) == gx < 0 \/ gy < 0 \/ gx >= nc \/ gy >= nr

get_tile_at(m, nc, nr, gx, gy, z) ==
    IF OutOfBounds(nc, nr, gx, gy)
    THEN RenderTile(gx, gy, z, m.border, TRUE)
    ELSE RenderTile(gx, gy, z, m.layers[z + 1][gy + 1][gx + 1], FALSE)

\* get_neighbors with the east and west neighbours exchanged.
get_neighbors_ew_swapped(m, nc, nr, gx, gy, z) ==
    << get_tile_at(m, nc, nr, gx, gy - 1, z),
       get_tile_at(m, nc, nr, gx, gy + 1, z),
       get_tile_at(m, nc, nr, gx - 1, gy, z),
       get_tile_at(m, nc, nr, gx + 1, gy, z),
       get_tile_at(m, nc, nr, gx - 1, gy - 1, z),
       get_tile_at(m, nc, nr, gx - 1, gy + 1, z),
       get_tile_at(m, nc, nr, gx + 1, gy + 1, z),
       get_tile_at(m, nc, nr, gx + 1, gy - 1, z) >>

get_neighbors(m, nc, nr, gx, gy, z) ==
    << get_tile_at(m, nc, nr, gx, gy - 1, z),
       get_tile_at(m, nc, nr, gx, gy + 1, z),
       get_tile_at(m, nc, nr, gx + 1, gy, z),
       get_tile_at(m, nc, nr, gx - 1, gy, z),
       get_tile_at(m, nc, nr, gx - 1, gy - 1, z),
       get_tile_at(m, nc, nr, gx - 1, gy + 1, z),
       get_tile_at(m, nc, nr, gx + 1, gy + 1, z),
       get_tile_at(m, nc, nr, gx + 1, gy - 1, z) >>

\* self.map["tiles"].get(t) or self.map["tiles"][self.map["default"]]
EffectiveSprite(m, t) ==
    LET own == DictGet(m.tiles, t)
    IN  IF Truthy(own) THEN own ELSE m.tiles[m.default]

water_lookup == <<"n", "s", "e", "w">>

\* CardinalName without the out-of-bounds case: the border tile's own sprite.
CardinalName_border_sprite(m, neighbor) == EffectiveSprite(m, neighbor.tile)

\* The sprite name the cardinal-neighbour loop compares with the cancelers.
CardinalName(m, neighbor) ==
    IF neighbor.out_of_bounds THEN "wtr" ELSE EffectiveSprite(m, neighbor.tile)

\* "".join(water_edges) after the loop over neighbors[:4].
RECURSIVE EdgesStr(_, _, _)
EdgesStr(m, cardinal, index) ==
    IF index > 4 THEN ""
    ELSE (IF CardinalName(m, cardinal[index]) \notin WATER_EDGE_CANCELERS
          THEN water_lookup[index] ELSE "")
         \o EdgesStr(m, cardinal, index + 1)

\* The cap letters in alphabetical order.
cap_letters_alphabetical == <<"a", "b", "c", "d">>

cap_letters == <<"a", "c", "d", "b">>

\* ----------------------------------------------- the layer dict (ordered)
\* A defaultdict(list) is a sequence of [k, v] entries in insertion order.
Keys(L) == {L[i].k : i \in 1 .. Len(L)}

KeyIndex(L, k) == CHOOSE i \in 1 .. Len(L) : L[i].k = k

\* layers[k].append(t): the entry is created, last, when the key is new.
DictAppend(L, k, t) ==
    IF k \in Keys(L)
    THEN [L EXCEPT ![KeyIndex(L, k)].v = Append(@, t)]
    ELSE Append(L, [k |-> k, v |-> <<t>>])

\* The loop over enumerate("acdb"): each cap goes to layers[len(layers) + 1].
RECURSIVE AddCaps(_, _, _, _, _, _, _)
AddCaps(L, m, ordinal, index, px, py, z) ==
    IF index > 4 THEN L
    ELSE IF ordinal[index].out_of_bounds
         THEN AddCaps(L, m, ordinal, index + 1, px, py, z)
         ELSE IF EffectiveSprite(m, ordinal[index].tile) \notin WATER_EDGE_CANCELERS
              THEN LET after == DictAppend(L, Len(L) + 1,
                                           RenderTile(px, py, z,
                                                      "wtrc_" \o cap_letters[index],
                                                      FALSE))
                   IN  IF Len(after) >= 0
                       THEN AddCaps(after, m, ordinal, index + 1, px, py, z)
                       ELSE after
              ELSE AddCaps(L, m, ordinal, index + 1, px, py, z)

\* ------------------------------------------------------------ tile_mapper
\* The window's first column without the viewer's x.
x_origin_without_viewer(full) == IF full THEN 0 ELSE 0 - radius

x_origin(full) == IF full THEN 0 ELSE (0 - radius) + x
y_origin(full) == IF full THEN 0 ELSE (0 - radius) + y
x_max(full) == IF full THEN cols ELSE radius + x + 1
y_max(full) == IF full THEN rows ELSE radius + y + 1

\* The length of the product of the two ranges, and its i-th pair (from 0):
\* x is the outer range, y the inner one.
PerLevel(full) ==
    RangeLen(x_origin(full), x_max(full)) * RangeLen(y_origin(full), y_max(full))
XOf(full, i) == x_origin(full) + (i \div RangeLen(y_origin(full), y_max(full)))
YOf(full, i) == y_origin(full) + (i % RangeLen(y_origin(full), y_max(full)))

\* The water branch of the loop body: the caps, then the primary tile.
WaterTile(L, m, nc, nr, z, gx, gy, px, py, tile) ==
    LET nb        == get_neighbors(m, nc, nr, gx, gy, z)
        edges_str == EdgesStr(m, SubSeq(nb, 1, 4), 1)
        primary   == IF edges_str # "" THEN "wtr_" \o edges_str ELSE tile
        capped    == AddCaps(L, m, SubSeq(nb, 5, 8), 1, px, py, z)
    IN  DictAppend(capped, z, RenderTile(px, py, z, primary, FALSE))

\* One iteration of the cell loop: the layer dict after it.
CellBody(L, m, nc, nr, edges, z, gx, gy, px, py) ==
    LET out_of_bounds == OutOfBounds(nc, nr, gx, gy)
    IN  IF z = 0 /\ out_of_bounds
        THEN DictAppend(L, z, RenderTile(px, py, z, m.border, TRUE))
        ELSE IF out_of_bounds THEN L
        ELSE LET tile == m.layers[z + 1][gy + 1][gx + 1]
             IN  IF tile = " " THEN L
                 ELSE IF edges = FALSE THEN L
                 ELSE IF DictGet(m.tiles, tile) = "wtr"
                      THEN WaterTile(L, m, nc, nr, z, gx, gy, px, py, tile)
                      ELSE DictAppend(L, z,
                                      RenderTile(px, py, z, tile, FALSE))

\* The inner loop for one z_index, from its i-th pair on.
RECURSIVE LevelBody(_, _, _, _)
LevelBody(L, full, z, i) ==
    IF i >= PerLevel(full) THEN L
    ELSE LET after == CellBody(L, map, cols, rows, render_water_edges, z,
                               XOf(full, i), YOf(full, i),
                               (XOf(full, i) - x_origin(full)) * TILE_SIZE,
                               (YOf(full, i) - y_origin(full)) * TILE_SIZE)
         IN  IF Len(after) >= 0 THEN LevelBody(after, full, z, i + 1) ELSE after

\* ----------------------------------------------------------------- render
ImageSize(full) ==
    IF full THEN <<cols * TILE_SIZE, rows * TILE_SIZE>>
    ELSE <<visibility * TILE_SIZE, visibility * TILE_SIZE>>

\* len(range(0, n, TILE_SIZE))
StepsOf(n) == IF n > 0 THEN (n + TILE_SIZE - 1) \div TILE_SIZE ELSE 0

\* One paste: the image, where, and the layer key and tile it was made for
\* (key -1: the background fill).
Paste(m, k, t) ==
    [img |-> get_tile(m, t.tile), x |-> t.x, y |-> t.y, key |-> k,
     z |-> t.z, tile |-> t.tile, out_of_bounds |-> t.out_of_bounds]

\* The background: the default tile pasted over product(range x, range y).
BaseFill(m, size) ==
    LET w == StepsOf(size[1])
        h == StepsOf(size[2])
    IN  [i \in 1 .. w * h |->
           Paste(m, -1, RenderTile(((i - 1) \div h) * TILE_SIZE,
                                   ((i - 1) % h) * TILE_SIZE, -1, m.default, FALSE))]

SelectOOB(m, k, v, flag) ==
    LET picked == SelectSeq(v, LAMBDA t : t.out_of_bounds = flag)
    IN  [i \in 1 .. Len(picked) |-> Paste(m, k, picked[i])]

\* The loop over tiles.items(), in dict order, from the i-th entry on: each
\* layer's border tiles go to the shared border sub-layer, the others to its
\* own image; the border sub-layer is composited with layer 0, before it.
RECURSIVE CompositeFrom(_, _, _, _, _)
CompositeFrom(canvas, oob_layer, m, L, i) ==
    IF i > Len(L) THEN [canvas |-> canvas, oob |-> oob_layer]
    ELSE LET entry       == L[i]
             oob         == oob_layer \o SelectOOB(m, entry.k, entry.v, TRUE)
             layer_image == SelectOOB(m, entry.k, entry.v, FALSE)
             drawn       == (IF entry.k = 0 THEN canvas \o oob ELSE canvas)
                              \o layer_image
         IN  IF Len(drawn) >= 0 /\ Len(oob) >= 0
             THEN CompositeFrom(drawn, oob, m, L, i + 1)
             ELSE [canvas |-> drawn, oob |-> oob]

\* ---------------------------------------------------------------- actions
NoTiles == [f \in BOOLEAN |-> <<>>]

InitSelf(m, vx, vy, vis, edges) ==
    /\ map = m
    /\ rows = Len(m.layers[1])
    /\ cols = Len(m.layers[1][1])
    /\ visibility = OrOne(vis)
    /\ radius = OrOne(vis) \div 2
    /\ x = vx
    /\ y = vy
    /\ render_water_edges = edges
    /\ visibility_arg = vis
    /\ neighbors = <<>>
    /\ pc = "idle"
    /\ full_map = FALSE
    /\ z_index = 0
    /\ layers = <<>>
    /\ tiles = NoTiles
    /\ out_of_bounds_layer = <<>>
    /\ base_image = <<>>

Init ==
    \E m \in Maps, vx \in 0 .. MaxView, vy \in 0 .. MaxView,
       vis \in (0 - MaxNegVis) .. MaxVis, edges \in BOOLEAN :
        InitSelf(m, vx, vy, vis, edges)

\* Image.new(mode, size) raises ValueError on a negative width or height.
ImageNewRaises(size) == size[1] < 0 \/ size[2] < 0

\* render(full_map=full) up to its call of tile_mapper, and tile_mapper up to
\* its loops; or up to the exception of Image.new, which ends the call.
RenderBegin(full) ==
    /\ pc \in {"idle", "saved", "raised"}
    /\ full_map' = full
    /\ layers' = <<>>
    /\ z_index' = 0
    /\ out_of_bounds_layer' = <<>>
    /\ IF ImageNewRaises(ImageSize(full))
       THEN pc' = "raised" /\ base_image' = <<>>
       ELSE pc' = "mapping" /\ base_image' = BaseFill(map, ImageSize(full))
    /\ UNCHANGED <<self_vars, neighbors, tiles>>

\* One iteration of tile_mapper's loop over z_index: the whole inner loop.
MapLevel ==
    /\ pc = "mapping"
    /\ z_index < Len(map.layers)
    /\ layers' = LevelBody(layers, full_map, z_index, 0)
    /\ z_index' = z_index + 1
    /\ UNCHANGED <<self_vars, neighbors, pc, full_map, tiles,
                   out_of_bounds_layer, base_image>>

\* tile_mapper returns layers; render creates the border sub-layer.
MapReturn ==
    /\ pc = "mapping"
    /\ z_index = Len(map.layers)
    /\ tiles' = [tiles EXCEPT ![full_map] = <<layers>>]
    /\ pc' = "compositing"
    /\ out_of_bounds_layer' = <<>>
    /\ UNCHANGED <<self_vars, neighbors, full_map, z_index, layers, base_image>>

\* render's loop over tiles.items(), then base_image.save and the return.
RenderComposite ==
    /\ pc = "compositing"
    /\ LET done == CompositeFrom(base_image, out_of_bounds_layer, map, layers, 1)
       IN  /\ base_image' = done.canvas
           /\ out_of_bounds_layer' = done.oob
    /\ pc' = "saved"
    /\ UNCHANGED <<self_vars, neighbors, full_map, z_index, layers, tiles>>

\* get_neighbors(x=qx, y=qy, z=qz), called on its own.
GetNeighbors(qx, qy, qz) ==
    /\ pc = "idle"
    /\ neighbors' = [at |-> <<qx, qy, qz>>,
                     out |-> get_neighbors(map, cols, rows, qx, qy, qz)]
    /\ UNCHANGED <<self_vars, pc, full_map, z_index, layers, tiles,
                   out_of_bounds_layer, base_image>>

\* A renderer is asked for each mode once, in either order.
Next ==
    \/ \E full \in BOOLEAN : tiles[full] = <<>> /\ RenderBegin(full)
    \/ MapLevel
    \/ MapReturn
    \/ RenderComposite

Spec == Init /\ [][Next]_vars

\* The grid accessor and the neighbour resolver on their own: one renderer
\* per map, queried at coordinates inside, around and far from the grid.
Coordinates == ((0 - Reach) .. (MaxCols + Reach)) \cup {0 - Far, Far}

InitNeighbors == \E m \in Maps : InitSelf(m, 0, 0, 9, TRUE)

NextNeighbors ==
    /\ neighbors = <<>>
    /\ \E qx \in Coordinates, qy \in Coordinates, qz \in 0 .. Len(map.layers) - 1 :
          GetNeighbors(qx, qy, qz)

SpecNeighbors == InitNeighbors /\ [][NextNeighbors]_vars

\* ------------------------------------------------- vocabulary of the claims
\* The state in which tile_mapper has just returned `layers`.
Returned == pc = "compositing"

InGrid(gx, gy) == 0 <= gx /\ gx < cols /\ 0 <= gy /\ gy < rows

SymbolAt(z, gx, gy) == map.layers[z + 1][gy + 1][gx + 1]

\* The sprite a symbol stands for: its own mapping, else the default's.
SpriteOf(sym) ==
    IF sym \in DOMAIN map.tiles THEN map.tiles[sym] ELSE map.tiles[map.default]

IsWaterCell(z, gx, gy) ==
    /\ InGrid(gx, gy)
    /\ SymbolAt(z, gx, gy) \in DOMAIN map.tiles
    /\ map.tiles[SymbolAt(z, gx, gy)] = "wtr"

\* The coordinate range of a mode, and the pixel position of a cell in it.
OriginX(full) == IF full THEN 0 ELSE x - radius
OriginY(full) == IF full THEN 0 ELSE y - radius
Visited(full) ==
    IF full THEN (0 .. cols - 1) \X (0 .. rows - 1)
    ELSE (x - radius .. x + radius) \X (y - radius .. y + radius)
PixelX(full, gx) == (gx - OriginX(full)) * TILE_SIZE
PixelY(full, gy) == (gy - OriginY(full)) * TILE_SIZE

Levels == 0 .. Len(map.layers) - 1

CapNames == {"wtrc_a", "wtrc_b", "wtrc_c", "wtrc_d"}

\* The places <<i, j>> of a layer collection: tile j of its i-th layer.
Places(L) == UNION {{<<i, j>> : j \in 1 .. Len(L[i].v)} : i \in 1 .. Len(L)}
TileAt(L, p) == L[p[1]].v[p[2]]
KeyAt(L, p) == L[p[1]].k

\* The places holding a tile of level z at pixel (px, py): its caps, and the
\* rest (the cell's primary or border tile).
CapsOf(L, z, px, py) ==
    {p \in Places(L) : /\ TileAt(L, p).z = z /\ TileAt(L, p).x = px
                       /\ TileAt(L, p).y = py /\ TileAt(L, p).tile \in CapNames}
PrimariesOf(L, z, px, py) ==
    {p \in Places(L) : /\ TileAt(L, p).z = z /\ TileAt(L, p).x = px
                       /\ TileAt(L, p).y = py /\ TileAt(L, p).tile \notin CapNames}

\* A neighbour that draws a shoreline: in the grid, and not a canceler.
Shore(z, gx, gy) ==
    InGrid(gx, gy) /\ SpriteOf(SymbolAt(z, gx, gy)) \notin WATER_EDGE_CANCELERS

Letter(cond, l) == IF cond THEN l ELSE ""

EdgeCodes(z, gx, gy) ==
    Letter(Shore(z, gx, gy - 1), "n") \o Letter(Shore(z, gx, gy + 1), "s")
      \o Letter(Shore(z, gx + 1, gy), "e") \o Letter(Shore(z, gx - 1, gy), "w")

\* The duplicate-free subsequences of "nsew".
CodeStrings ==
    {Letter(n, "n") \o Letter(s, "s") \o Letter(e, "e") \o Letter(w, "w") :
       n \in BOOLEAN, s \in BOOLEAN, e \in BOOLEAN, w \in BOOLEAN}

\* ---------------------------------------------------------------------- C5
\* C5: with edge rendering enabled, the primary tile of every visited
\* in-bounds water cell is the one tile of its layer at its position, and it
\* is "wtr_" followed by the letters n, s, e, w (in that order) of exactly the
\* cardinal neighbours that are in bounds and not edge-canceling; with no
\* such neighbour it is the plain water sprite.
C5_EdgeSuffix ==
    (Returned /\ render_water_edges) =>
      \A c \in Visited(full_map), z \in Levels :
        IsWaterCell(z, c[1], c[2]) =>
          LET prim  == PrimariesOf(layers, z, PixelX(full_map, c[1]),
                                   PixelY(full_map, c[2]))
              codes == EdgeCodes(z, c[1], c[2])
          IN  /\ Cardinality(prim) = 1
              /\ \A p \in prim :
                   /\ KeyAt(layers, p) = z
                   /\ ~TileAt(layers, p).out_of_bounds
                   /\ codes \in CodeStrings
                   /\ IF codes = ""
                      THEN get_tile(map, TileAt(layers, p).tile) = "wtr"
                      ELSE TileAt(layers, p).tile = "wtr_" \o codes

\* A water cell at the top left corner of the grid with grass to its south
\* and east has been mapped: its tile is wtr_se.
C5_Witness ==
    /\ Returned /\ render_water_edges /\ full_map
    /\ cols >= 2 /\ rows >= 2
    /\ IsWaterCell(0, 0, 0)
    /\ SymbolAt(0, 1, 0) = "g" /\ SymbolAt(0, 0, 1) = "g"
    /\ \E p \in PrimariesOf(layers, 0, 0, 0) : TileAt(layers, p).tile = "wtr_se"

\* ---------------------------------------------------------------------- C6
Diagonals ==
    {<<-1, -1, "a">>, <<-1, 1, "c">>, <<1, 1, "d">>, <<1, -1, "b">>}

CapsExpected(z, gx, gy) ==
    {"wtrc_" \o d[3] : d \in {e \in Diagonals : Shore(z, gx + e[1], gy + e[2])}}

\* C6: with edge rendering enabled, the caps of a visited in-bounds water
\* cell are exactly one wtrc_<letter> tile, at the cell's pixel position, per
\* diagonal neighbour that is in bounds and not edge-canceling (NW a, SW c,
\* SE d, NE b); none for the others.
C6_Caps ==
    (Returned /\ render_water_edges) =>
      \A c \in Visited(full_map), z \in Levels :
        IsWaterCell(z, c[1], c[2]) =>
          LET caps == CapsOf(layers, z, PixelX(full_map, c[1]),
                             PixelY(full_map, c[2]))
          IN  /\ {TileAt(layers, p).tile : p \in caps} = CapsExpected(z, c[1], c[2])
              /\ Cardinality(caps) = Cardinality(CapsExpected(z, c[1], c[2]))
              /\ \A p \in caps : ~TileAt(layers, p).out_of_bounds

\* The 3 x 3 grid whose centre is water with grass to its north, east and
\* north-east only has been mapped: wtr_ne and the single cap wtrc_b.
C6_Witness ==
    /\ Returned /\ render_water_edges /\ full_map
    /\ cols = 3 /\ rows = 3
    /\ \A gx \in 0 .. 2, gy \in 0 .. 2 :
         SymbolAt(0, gx, gy) =
           (IF <<gx, gy>> \in {<<1, 0>>, <<2, 1>>, <<2, 0>>} THEN "g" ELSE "w")
    /\ \E p \in PrimariesOf(layers, 0, TILE_SIZE, TILE_SIZE) :
         TileAt(layers, p).tile = "wtr_ne"
    /\ {TileAt(layers, p).tile : p \in CapsOf(layers, 0, TILE_SIZE, TILE_SIZE)}
         = {"wtrc_b"}
    /\ Cardinality(CapsOf(layers, 0, TILE_SIZE, TILE_SIZE)) = 1

\* ---------------------------------------------------------------------- C1
\* C1: with render_water_edges = false, every visited in-bounds water cell
\* has exactly one primary tile, in the layer of its z-level, resolving to
\* the plain water sprite, and the collection holds no cap tile and no
\* layer beyond the map's z-levels.
C1_PlainWaterWhenEdgesOff ==
    (Returned /\ ~render_water_edges) =>
      /\ \A c \in Visited(full_map), z \in Levels :
           IsWaterCell(z, c[1], c[2]) =>
             LET prim == PrimariesOf(layers, z, PixelX(full_map, c[1]),
                                     PixelY(full_map, c[2]))
             IN  /\ Cardinality(prim) = 1
                 /\ \A p \in prim :
                      /\ KeyAt(layers, p) = z
                      /\ get_tile(map, TileAt(layers, p).tile) = "wtr"
      /\ \A p \in Places(layers) :
           TileAt(layers, p).tile \notin CapNames /\ KeyAt(layers, p) \in Levels

\* ---------------------------------------------------------------------- C2
IsCapPaste(e) == e.key >= 0 /\ e.tile \in CapNames
IsMainPaste(e) == e.key >= 0 /\ e.tile \notin CapNames /\ ~e.out_of_bounds

\* C2: on the saved canvas every cap of z-level z was drawn after every
\* main-content tile of z-level z.
C2_CapsAfterMainContent ==
    pc = "saved" =>
      \A i \in 1 .. Len(base_image), j \in 1 .. Len(base_image) :
        (/\ IsCapPaste(base_image[i]) /\ IsMainPaste(base_image[j])
         /\ base_image[i].z = base_image[j].z) => j < i

\* ---------------------------------------------------------------------- C3
\* C3: on the saved canvas the border tiles of layer 0 come before layer 0's
\* main content, and the layers come in increasing order of their index.
C3_NumericLayerOrder ==
    pc = "saved" =>
      \A i \in 1 .. Len(base_image), j \in 1 .. Len(base_image) :
        (i < j /\ base_image[i].key >= 0 /\ base_image[j].key >= 0) =>
          /\ base_image[i].key <= base_image[j].key
          /\ ~(/\ base_image[j].out_of_bounds
               /\ base_image[i].key = 0 /\ ~base_image[i].out_of_bounds)

\* ---------------------------------------------------------------------- C4
\* C4: in the returned collection a layer whose index is below the number of
\* z-levels holds only tiles of that z-level and no cap, and every other
\* layer holds exactly one tile, a cap.
C4_CapLayersFresh ==
    Returned =>
      \A i \in 1 .. Len(layers) :
        IF layers[i].k < Len(map.layers)
        THEN \A j \in 1 .. Len(layers[i].v) :
               /\ layers[i].v[j].z = layers[i].k
               /\ layers[i].v[j].tile \notin CapNames
        ELSE /\ Len(layers[i].v) = 1
             /\ layers[i].v[1].tile \in CapNames

\* ---------------------------------------------------------------------- C7
\* The tile references of level z at pixel (px, py), each with its flag.
ContentAt(L, z, px, py) ==
    {<<TileAt(L, p).tile, TileAt(L, p).out_of_bounds>> :
       p \in CapsOf(L, z, px, py) \cup PrimariesOf(L, z, px, py)}

\* C7: for a cell in the coordinate range of both modes, the full-map and the
\* windowed collection hold the same primary tile and the same caps, at the
\* cell's position relative to each mode's origin.
C7_ModesAgree ==
    (Returned /\ tiles[TRUE] # <<>> /\ tiles[FALSE] # <<>>) =>
      \A c \in Visited(TRUE) \cap Visited(FALSE), z \in Levels :
        LET fx == PixelX(TRUE, c[1])
            fy == PixelY(TRUE, c[2])
            wx == PixelX(FALSE, c[1])
            wy == PixelY(FALSE, c[2])
            F  == tiles[TRUE][1]
            W  == tiles[FALSE][1]
        IN  /\ ContentAt(F, z, fx, fy) = ContentAt(W, z, wx, wy)
            /\ Cardinality(PrimariesOf(F, z, fx, fy))
                 = Cardinality(PrimariesOf(W, z, wx, wy))
            /\ Cardinality(CapsOf(F, z, fx, fy)) = Cardinality(CapsOf(W, z, wx, wy))
            /\ {KeyAt(F, p) : p \in PrimariesOf(F, z, fx, fy)}
                 = {KeyAt(W, p) : p \in PrimariesOf(W, z, wx, wy)}

\* Both modes have returned, the window's origin is not the grid's, and a
\* cell of both ranges has an edge-suffixed tile and a cap.
C7_Witness ==
    /\ Returned /\ tiles[TRUE] # <<>> /\ tiles[FALSE] # <<>>
    /\ render_water_edges
    /\ OriginX(FALSE) # 0 /\ OriginY(FALSE) # 0
    /\ \E c \in Visited(TRUE) \cap Visited(FALSE) :
         /\ CapsOf(tiles[FALSE][1], 0, PixelX(FALSE, c[1]), PixelY(FALSE, c[2])) # {}
         /\ \E p \in PrimariesOf(tiles[TRUE][1], 0, PixelX(TRUE, c[1]),
                                 PixelY(TRUE, c[2])) :
              TileAt(tiles[TRUE][1], p).tile \notin {"w", "g", "c"}

\* ---------------------------------------------------------------------- C8
Offsets ==
    << <<0, -1>>, <<0, 1>>, <<1, 0>>, <<-1, 0>>,
       <<-1, -1>>, <<-1, 1>>, <<1, 1>>, <<1, -1>> >>

\* Entry i of the latest answer is the tile at its compass offset: the grid
\* symbol inside the grid, the border category flagged out of bounds outside.
NeighborRight(i) ==
    LET gx == neighbors.at[1] + Offsets[i][1]
        gy == neighbors.at[2] + Offsets[i][2]
        t  == neighbors.out[i]
    IN  /\ t.x = gx /\ t.y = gy /\ t.z = neighbors.at[3]
        /\ IF InGrid(gx, gy)
           THEN t.tile = SymbolAt(neighbors.at[3], gx, gy) /\ ~t.out_of_bounds
           ELSE t.tile = map.border /\ t.out_of_bounds

\* At the corner (0, 0): out of bounds exactly with a negative coordinate.
CornerRight ==
    (neighbors.at[1] = 0 /\ neighbors.at[2] = 0) =>
      \A i \in 1 .. 8 :
        neighbors.out[i].out_of_bounds <=> (Offsets[i][1] < 0 \/ Offsets[i][2] < 0)

\* C8 as claimed: 8 entries in the order N, S, E, W, NW, SW, SE, NE, each the
\* tile at its coordinate, and at the corner (0, 0) of any grid exactly the
\* neighbours with a negative coordinate out of bounds.
C8_NeighborsAnyGrid ==
    neighbors # <<>> =>
      /\ Len(neighbors.out) = 8
      /\ \A i \in 1 .. 8 : NeighborRight(i)
      /\ CornerRight

\* C8 as amended: the corner statement for grids of at least 2 x 2 cells.
C8_Neighbors ==
    neighbors # <<>> =>
      /\ Len(neighbors.out) = 8
      /\ \A i \in 1 .. 8 : NeighborRight(i)
      /\ (cols >= 2 /\ rows >= 2) => CornerRight

\* The neighbours of the corner (0, 0) of a grid of at least 2 x 2 cells
\* have been asked for: the south-east one is inside the grid.
C8_Witness ==
    /\ neighbors # <<>>
    /\ neighbors.at[1] = 0 /\ neighbors.at[2] = 0
    /\ cols >= 2 /\ rows >= 2
    /\ ~neighbors.out[7].out_of_bounds
    /\ neighbors.out[5].out_of_bounds

\* ---------------------------------------------------------------------- C9
\* C9: in the returned collection a visited coordinate outside the grid has
\* exactly one tile, the border tile flagged out_of_bounds, of level 0 and in
\* layer 0; a visited blank cell has none; any other visited cell has exactly
\* one primary tile per level, in the layer of that level; border tiles are
\* in layer 0 only; and while mapping, the tiles emitted so far are those of
\* the levels below the current one.
C9_OneTilePerCell ==
    /\ pc = "mapping" =>
         \A p \in Places(layers) : TileAt(layers, p).z < z_index
    /\ Returned =>
         /\ \A p \in Places(layers) :
              TileAt(layers, p).out_of_bounds => KeyAt(layers, p) = 0
         /\ \A c \in Visited(full_map), z \in Levels :
              LET px   == PixelX(full_map, c[1])
                  py   == PixelY(full_map, c[2])
                  prim == PrimariesOf(layers, z, px, py)
              IN  IF ~InGrid(c[1], c[2])
                  THEN /\ CapsOf(layers, z, px, py) = {}
                       /\ IF z = 0
                          THEN /\ Cardinality(prim) = 1
                               /\ \A p \in prim :
                                    /\ KeyAt(layers, p) = 0
                                    /\ TileAt(layers, p).out_of_bounds
                                    /\ TileAt(layers, p).tile = map.border
                          ELSE prim = {}
                  ELSE IF SymbolAt(z, c[1], c[2]) = " "
                       THEN prim = {} /\ CapsOf(layers, z, px, py) = {}
                       ELSE /\ Cardinality(prim) = 1
                            /\ \A p \in prim :
                                 /\ KeyAt(layers, p) = z
                                 /\ ~TileAt(layers, p).out_of_bounds

\* --------------------------------------------------------------------- C10
\* C10: a configuration with visibility below 1, or with an empty window, is
\* rejected: no cell loop runs and no layer collection is returned for it;
\* any other visibility is itself when odd, the next odd value when even,
\* and the window is visibility x visibility cells.
C10_BadConfigurationRejected ==
    /\ (visibility_arg < 1 \/ PerLevel(FALSE) = 0) =>
         /\ tiles = NoTiles
         /\ pc \notin {"compositing", "saved"}
         /\ ~(pc = "mapping" /\ z_index > 0 /\ PerLevel(full_map) > 0)
    /\ visibility_arg >= 1 =>
         /\ visibility % 2 = 1
         /\ visibility \in {visibility_arg, visibility_arg + 1}
         /\ PerLevel(FALSE) = visibility * visibility

====
